---- MODULE Spec2Model ----
(***************************************************************************)
(* Model of python-server/embedding_server.py: the tiered resolution of    *)
(* the embedding model at startup (load_model), the FallbackEmbedder, and  *)
(* the HTTP handlers GET /health, GET / and POST /embed.                   *)
(*                                                                         *)
(* Texts are sequences of character codes (ord).  Floating-point values    *)
(* are fixed-point integers in units of 1e-4; np.sin and np.log are the    *)
(* tables SinTable and LogTable.  Optional[str] is a sequence of length 0  *)
(* (None) or 1 (the string).                                               *)
(***************************************************************************)
EXTENDS Integers, Sequences, FiniteSets, TLC

\* ---------------------------------------------------------------- bounds
\* A request of the small family spends one unit per text and one per
\* character; MaxSize is the budget of a request.
MaxSize == 4

\* ------------------------------------------------------ program constants
Dim == 768
MaxChars == 100
MaxTexts == 100
IdxCharMul == 7
IdxPosMul == 11
DefaultModelName == "nomic-ai/nomic-embed-text-v2-moe"

\* ------------------------------------------------------------ characters
\* ' ', 'B', 'a'
Alphabet == {32, 66, 97}

\* str.isspace for the ASCII range
IsSpace(c) == c \in {9, 10, 11, 12, 13, 28, 29, 30, 31, 32}

\* str.lower for the ASCII range
LowerChar(c) == IF c >= 65 /\ c <= 90 THEN c + 32 ELSE c

Lower(text) == [i \in 1..Len(text) |-> LowerChar(text[i])]

RECURSIVE LStrip(_)
LStrip(text) ==
    IF text # <<>> /\ IsSpace(Head(text)) THEN LStrip(Tail(text)) ELSE text

RECURSIVE RStrip(_)
RStrip(text) ==
    IF text # <<>> /\ IsSpace(text[Len(text)])
    THEN RStrip(SubSeq(text, 1, Len(text) - 1))
    ELSE text

\* str.strip()
Strip(text) == RStrip(LStrip(text))

\* str.split() with no separator: runs of whitespace separate the words,
\* leading and trailing whitespace yields no empty word.  The scanner
\* holds the words completed and the word being collected; SplitStep
\* reads one character.
SplitStep(s, c) ==
    IF IsSpace(c)
    THEN [words |-> IF s.word = <<>> THEN s.words ELSE Append(s.words, s.word),
          word |-> <<>>]
    ELSE [words |-> s.words, word |-> Append(s.word, c)]

\* the scanner s after reading text[lo..hi], left to right (by halves)
RECURSIVE SplitScan(_, _, _, _)
SplitScan(s, text, lo, hi) ==
    IF lo > hi THEN s
    ELSE IF lo = hi THEN SplitStep(s, text[lo])
    ELSE LET mid == (lo + hi) \div 2
         IN  SplitScan(SplitScan(s, text, lo, mid), text, mid + 1, hi)

\* split(" "): every whitespace character ends a word, empty words kept
Split_KeepEmpty(text) ==
    LET spaces == {i \in 1..Len(text) : IsSpace(text[i])}
    IN  [j \in 1..(Cardinality(spaces) + 1) |-> <<>>]

Split(text) ==
    LET s == SplitScan([words |-> <<>>, word |-> <<>>], text, 1, Len(text))
    IN  IF s.word = <<>> THEN s.words ELSE Append(s.words, s.word)

\* sum(len(text.split()) for text in texts[lo..hi]), by halves
RECURSIVE SumWordsRange(_, _, _)
SumWordsRange(texts, lo, hi) ==
    IF lo > hi THEN 0
    ELSE IF lo = hi THEN Len(Split(texts[lo]))
    ELSE LET mid == (lo + hi) \div 2
         IN  SumWordsRange(texts, lo, mid) + SumWordsRange(texts, mid + 1, hi)

\* sum(len(text.split()) for text in texts)
SumWords(texts) == SumWordsRange(texts, 1, Len(texts))

\* ------------------------------------------------------- FallbackEmbedder
\* round(sin(n) * 0.1 * 1e4) for n = 0..255, at index n + 1
SinTable ==
    <<
       0, 841, 909, 141, -757, -959, -279, 657, 989, 412, -544, -1000, -537,
       420, 991, 650, -288, -961, -751, 150, 913, 837, -9, -846, -906, -132,
       763, 956, 271, -664, -988, -404, 551, 1000, 529, -428, -992, -644,
       296, 964, 745, -159, -917, -832, 18, 851, 902, 124, -768, -954, -262,
       670, 987, 396, -559, -1000, -522, 436, 993, 637, -305, -966, -739,
       167, 920, 827, -27, -856, -898, -115, 774, 951, 254, -677, -985, -388,
       566, 1000, 514, -444, -994, -630, 313, 968, 733, -176, -923, -822, 35,
       860, 894, 106, -779, -948, -245, 683, 984, 380, -573, -999, -506, 452,
       995, 623, -322, -971, -727, 185, 927, 817, -44, -865, -890, -97, 785,
       945, 237, -690, -982, -371, 581, 999, 499, -460, -996, -616, 330, 973,
       721, -193, -930, -812, 53, 869, 886, 88, -790, -943, -228, 696, 980,
       363, -588, -998, -491, 468, 996, 609, -338, -975, -715, 202, 933, 806,
       -62, -873, -882, -80, 796, 940, 219, -702, -978, -355, 595, 998, 483,
       -476, -997, -602, 347, 977, 709, -211, -936, -801, 71, 878, 878, 71,
       -801, -936, -211, 709, 977, 347, -602, -997, -476, 483, 998, 595,
       -355, -978, -702, 219, 940, 796, -80, -882, -873, -62, 806, 933, 202,
       -715, -975, -338, 609, 996, 468, -491, -998, -588, 363, 980, 696,
       -228, -943, -790, 88, 886, 869, 53, -812, -930, -193, 721, 973, 330,
       -616, -996, -460, 499, 999, 581, -371, -982, -690, 237, 945, 785, -97,
       -890, -865, -44, 817, 927, 185, -727, -971, -322, 623, 995, 452, -506
    >>

\* round(log(n + 1) * 0.1 * 1e4) for n = 0..127, at index n + 1
LogTable ==
    <<
       0, 693, 1099, 1386, 1609, 1792, 1946, 2079, 2197, 2303, 2398, 2485,
       2565, 2639, 2708, 2773, 2833, 2890, 2944, 2996, 3045, 3091, 3135,
       3178, 3219, 3258, 3296, 3332, 3367, 3401, 3434, 3466, 3497, 3526,
       3555, 3584, 3611, 3638, 3664, 3689, 3714, 3738, 3761, 3784, 3807,
       3829, 3850, 3871, 3892, 3912, 3932, 3951, 3970, 3989, 4007, 4025,
       4043, 4060, 4078, 4094, 4111, 4127, 4143, 4159, 4174, 4190, 4205,
       4220, 4234, 4248, 4263, 4277, 4290, 4304, 4317, 4331, 4344, 4357,
       4369, 4382, 4394, 4407, 4419, 4431, 4443, 4454, 4466, 4477, 4489,
       4500, 4511, 4522, 4533, 4543, 4554, 4564, 4575, 4585, 4595, 4605,
       4615, 4625, 4635, 4644, 4654, 4663, 4673, 4682, 4691, 4700, 4710,
       4718, 4727, 4736, 4745, 4754, 4762, 4771, 4779, 4787, 4796, 4804,
       4812, 4820, 4828, 4836, 4844, 4852
    >>

\* np.sin(char_code + i) * 0.1
SinTerm(n) == SinTable[n + 1]

\* np.log(len(text_clean) + 1) * 0.1
LogFeature(n) == LogTable[n + 1]

\* np.zeros(768, dtype=np.float32)
Zeros == [k \in 0..(Dim - 1) |-> 0]

Min(a, b) == IF a < b THEN a ELSE b

\* One iteration of `for i, char in enumerate(text_clean[:100])`:
\* embedding[idx] += np.sin(char_code + i) * 0.1
AccumulateStep(embedding, text_clean, i) ==
    LET char_code == text_clean[i + 1]
        idx == (char_code * IdxCharMul + i * IdxPosMul) % Dim
    IN  [embedding EXCEPT ![idx] = @ + SinTerm(char_code + i)]

\* the embedding after the iterations i = lo..hi, in order (by halves)
RECURSIVE Accumulate(_, _, _, _)
Accumulate(embedding, text_clean, lo, hi) ==
    IF lo > hi THEN embedding
    ELSE IF lo = hi THEN AccumulateStep(embedding, text_clean, lo)
    ELSE LET mid == (lo + hi) \div 2
         IN  Accumulate(Accumulate(embedding, text_clean, lo, mid),
                        text_clean, mid + 1, hi)

\* sum of embedding[k] ** 2 for k in lo..hi, by halves
RECURSIVE SumSquares(_, _, _)
SumSquares(embedding, lo, hi) ==
    IF lo > hi THEN 0
    ELSE IF lo = hi THEN embedding[lo] * embedding[lo]
    ELSE LET mid == (lo + hi) \div 2
         IN  SumSquares(embedding, lo, mid) + SumSquares(embedding, mid + 1, hi)

\* largest r with r * r <= n, by bisection on lo..hi
RECURSIVE ISqrt(_, _, _)
ISqrt(n, lo, hi) ==
    IF lo >= hi THEN lo
    ELSE LET mid == (lo + hi + 1) \div 2
         IN  IF mid * mid <= n THEN ISqrt(n, mid, hi) ELSE ISqrt(n, lo, mid - 1)

\* np.linalg.norm(embedding)
Norm(embedding) ==
    LET s == SumSquares(embedding, 0, Dim - 1) IN ISqrt(s, 0, Min(s, 40000))

\* if norm >= 0
ShouldNormalize_Always(norm) == norm >= 0

\* if norm > 0
ShouldNormalize(norm) == norm > 0

\* embedding / norm; a zero divisor makes numpy return nan, not raise
Divide(embedding, norm) ==
    IF norm = 0 THEN embedding
    ELSE [k \in 0..(Dim - 1) |-> (embedding[k] * 10000) \div norm]

\* embedding[0] = np.log(len(text_clean) + 1) * 0.1
SetLengthFeature(embedding, text_clean) ==
    [embedding EXCEPT ![0] = LogFeature(Len(text_clean))]

\* One iteration of the loop of FallbackEmbedder.encode.  The fields other
\* than `vec` record the run: the cleaned text, the norm, whether the
\* division was performed and whether it produced nan.
FallbackEncodeOne(text) ==
    LET text_clean == Strip(Lower(text))
        accumulated == Accumulate(Zeros, text_clean, 0, Min(Len(text_clean), MaxChars) - 1)
        featured == SetLengthFeature(accumulated, text_clean)
        norm == Norm(featured)
        divided == ShouldNormalize(norm)
    IN  [text_clean |-> text_clean,
         norm |-> norm,
         divided |-> divided,
         nan |-> divided /\ norm = 0,
         vec |-> IF divided THEN Divide(featured, norm) ELSE featured]

\* FallbackEmbedder.encode: one embedding appended per text, in order
FallbackRun(texts) == [i \in 1..Len(texts) |-> FallbackEncodeOne(texts[i])]

\* -------------------------------------------------------------- encoders
None == "None"
SentenceTransformer == "SentenceTransformer"
TransformersEmbedder == "TransformersEmbedder"
FallbackEmbedder == "FallbackEmbedder"

\* What the import and the constructor of a neural tier can end with:
\* success, ImportError (library missing), or another Exception (OSError
\* on a failed model fetch or on incompatible weights).
TierOutcomes == {"ok", "ImportError", "OSError"}

\* `except ImportError:` matches the class and its subclasses
ExceptImportError(cls) == cls \in {"ImportError", "ModuleNotFoundError"}

Attempt(tier, outcome) == [tier |-> tier, outcome |-> outcome]

\* load_model without the `return` after the sentence-transformers tier:
\* the transformers tier is tried next and overwrites the encoder
load_model_Fallthrough(old, o1, o2) ==
    LET a1 == <<Attempt("sentence-transformers", o1)>>
        a2 == Append(a1, Attempt("transformers", o2))
        a3 == Append(a2, Attempt("fallback", "ok"))
    IN  IF o1 # "ok" /\ ~ExceptImportError(o1)
        THEN [embedder |-> old, attempts |-> a1, raised |-> o1]
        ELSE IF o2 = "ok"
        THEN [embedder |-> TransformersEmbedder, attempts |-> a2, raised |-> ""]
        ELSE IF ~ExceptImportError(o2)
        THEN [embedder |-> IF o1 = "ok" THEN SentenceTransformer ELSE old,
              attempts |-> a2, raised |-> o2]
        ELSE [embedder |-> FallbackEmbedder, attempts |-> a3, raised |-> ""]

\* load_model with the outcome o1 of the sentence-transformers tier and o2
\* of the transformers tier.  `embedder` is the value of the global after
\* the call given its value `old` before, `attempts` the tiers tried in
\* order, `raised` the exception that left load_model ("" when it returned).
load_model(old, o1, o2) ==
    LET a1 == <<Attempt("sentence-transformers", o1)>>
        a2 == Append(a1, Attempt("transformers", o2))
        a3 == Append(a2, Attempt("fallback", "ok"))
    IN  IF o1 = "ok"
        THEN [embedder |-> SentenceTransformer, attempts |-> a1, raised |-> ""]
        ELSE IF ~ExceptImportError(o1)
        THEN [embedder |-> old, attempts |-> a1, raised |-> o1]
        ELSE IF o2 = "ok"
        THEN [embedder |-> TransformersEmbedder, attempts |-> a2, raised |-> ""]
        ELSE IF ~ExceptImportError(o2)
        THEN [embedder |-> old, attempts |-> a2, raised |-> o2]
        ELSE [embedder |-> FallbackEmbedder, attempts |-> a3, raised |-> ""]

\* What embedder.encode can end with.  The FallbackEmbedder is total on
\* lists of str; the neural encoders may raise at inference time.
Returned == [raises |-> FALSE, cls |-> "", msg |-> ""]

EncodeOutcomes(enc) ==
    IF enc = FallbackEmbedder THEN {Returned}
    ELSE {Returned,
          [raises |-> TRUE, cls |-> "RuntimeError", msg |-> "CUDA out of memory"],
          [raises |-> TRUE, cls |-> "ValueError", msg |-> ""]}

\* The array a neural encoder returns: row i is the encoding, by that
\* encoder, of the i-th text it was given.
NeuralRun(enc, texts) == [i \in 1..Len(texts) |-> [encoder |-> enc, text |-> texts[i]]]

\* encode returning its rows last text first
Encode_Reversed(enc, texts) ==
    LET rev == [i \in 1..Len(texts) |-> texts[Len(texts) + 1 - i]]
    IN  IF enc = FallbackEmbedder THEN FallbackRun(rev) ELSE NeuralRun(enc, rev)

\* embedder.encode(request.texts)
Encode(enc, texts) ==
    IF enc = FallbackEmbedder THEN FallbackRun(texts)
    ELSE NeuralRun(enc, texts)

\* emb.tolist()
ToList(enc, emb) ==
    IF enc = FallbackEmbedder THEN [k \in 1..Dim |-> emb.vec[k - 1]] ELSE emb

\* [emb.tolist() for emb in embeddings]
EmbeddingsList(enc, rows) == [i \in 1..Len(rows) |-> ToList(enc, rows[i])]

\* ------------------------------------------------------------- requests
RECURSIVE Strings(_)
Strings(n) ==
    IF n <= 0 THEN {<<>>}
    ELSE LET shorter == Strings(n - 1)
         IN  shorter \cup {Append(t, c) : t \in {u \in shorter : Len(u) = n - 1},
                                         c \in Alphabet}

RECURSIVE SmallBatches(_)
SmallBatches(budget) ==
    IF budget <= 0 THEN {<<>>}
    ELSE {<<>>} \cup
         UNION {{<<t>> \o b : b \in SmallBatches(budget - 1 - Len(t))} :
                t \in Strings(budget - 1)}

Repeat(text, n) == [i \in 1..n |-> text]

\* Batches at the limit of 100 texts and one past it
LargeBatches == {Repeat(<<97>>, MaxTexts), Repeat(<<97>>, MaxTexts + 1)}

Batches == SmallBatches(MaxSize) \cup LargeBatches

\* EmbedRequest.model: None, or a string
ModelFields == {<<>>, <<"">>, <<"custom-model">>}

NoBody == [texts |-> <<>>, model |-> <<>>]

Requests ==
    {[op |-> "embed", texts |-> b, model |-> m] : b \in Batches, m \in ModelFields}
    \cup {[op |-> "health"] @@ NoBody, [op |-> "root"] @@ NoBody}

NoRequest == [op |-> "none"] @@ NoBody

\* ------------------------------------------------------------ responses
NoUsage == [prompt_tokens |-> 0, total_tokens |-> 0]

Blank ==
    [op |-> "none", status |-> 0, detail |-> "", exception |-> "",
     embeddings |-> <<>>, model |-> "", usage |-> NoUsage,
     ready |-> FALSE, message |-> ""]

\* raise HTTPException(status_code=..., detail=...)
HTTPException(status, detail) ==
    [Blank EXCEPT !.op = "embed", !.status = status, !.detail = detail]

\* `except ValueError as e:`
ExceptException_ValueErrorOnly(cls) == cls = "ValueError"

\* `except Exception as e:` in embed_texts
ExceptException(cls) == cls \in {"Exception", "RuntimeError", "ValueError", "OSError"}

\* model=model_name
ModelLabel_Ignored(model, name) == name

\* request.model or model_name
ModelLabel(model, name) ==
    IF model # <<>> /\ model[1] # "" THEN model[1] ELSE name

VARIABLES
    embedder,     \* global embedder: None or the class of the encoder
    model_name,   \* global model_name
    pc,           \* startup: "init", "ready" (load_model returned), "failed" (it raised)
    attempts,     \* the tiers load_model tried, in order, with their outcomes
    phase,        \* of the request in flight: "idle", "pending", "responded"
    request,      \* the request in flight
    response,     \* the answer to it, once responded
    encode_log    \* the calls of embedder.encode made for it: [args, rows]

vars == <<embedder, model_name, pc, attempts, phase, request, response, encode_log>>

Init ==
    /\ embedder = None
    /\ model_name = DefaultModelName
    /\ pc = "init"
    /\ attempts = <<>>
    /\ phase = "idle"
    /\ request = NoRequest
    /\ response = Blank
    /\ encode_log = <<>>

\* startup_event: await load_model()
Startup ==
    /\ pc = "init"
    /\ \E o1 \in TierOutcomes, o2 \in TierOutcomes :
         LET r == load_model(embedder, o1, o2)
         IN  /\ embedder' = r.embedder
             /\ attempts' = r.attempts
             /\ pc' = IF r.raised = "" THEN "ready" ELSE "failed"
    /\ UNCHANGED <<model_name, phase, request, response, encode_log>>

\* A request arrives and is routed to its handler.
Receive ==
    /\ phase = "idle"
    /\ \E req \in Requests : request' = req
    /\ phase' = "pending"
    /\ response' = Blank
    /\ encode_log' = <<>>
    /\ UNCHANGED <<embedder, model_name, pc, attempts>>

\* GET /health
health ==
    /\ phase = "pending"
    /\ request.op = "health"
    /\ response' = [Blank EXCEPT !.op = "health", !.status = 200,
                                 !.detail = "healthy", !.model = model_name,
                                 !.ready = (embedder # None)]
    /\ phase' = "responded"
    /\ UNCHANGED <<embedder, model_name, pc, attempts, request, encode_log>>

\* GET /
root ==
    /\ phase = "pending"
    /\ request.op = "root"
    /\ response' = [Blank EXCEPT !.op = "root", !.status = 200,
                                 !.message = "Nomic Embedding Server",
                                 !.model = model_name]
    /\ phase' = "responded"
    /\ UNCHANGED <<embedder, model_name, pc, attempts, request, encode_log>>

\* The checks with the empty-list check ahead of the readiness check
Validate_EmptyFirst(enc, texts) ==
    IF Len(texts) = 0 THEN HTTPException(400, "No texts provided")
    ELSE IF enc = None THEN HTTPException(503, "Model not loaded")
    ELSE IF Len(texts) > MaxTexts THEN HTTPException(400, "Too many texts (max 100)")
    ELSE Blank

\* The checks with `len(request.texts) >= 100`
Validate_OffByOne(enc, texts) ==
    IF enc = None THEN HTTPException(503, "Model not loaded")
    ELSE IF Len(texts) = 0 THEN HTTPException(400, "No texts provided")
    ELSE IF Len(texts) >= MaxTexts THEN HTTPException(400, "Too many texts (max 100)")
    ELSE Blank

\* The checks of embed_texts before the try block; Blank when they pass
Validate(enc, texts) ==
    IF enc = None THEN HTTPException(503, "Model not loaded")
    ELSE IF Len(texts) = 0 THEN HTTPException(400, "No texts provided")
    ELSE IF Len(texts) > MaxTexts THEN HTTPException(400, "Too many texts (max 100)")
    ELSE Blank

\* The try block of embed_texts, entered once the request is validated;
\* `out` is what embedder.encode ends with.  `log` is the one call of
\* encode made: its argument, how it ended and the rows it returned.
TryEncode(enc, name, req, out) ==
    LET rows == IF out.raises THEN <<>> ELSE Encode(enc, req.texts)
        log == <<[args |-> req.texts, outcome |-> out, rows |-> rows]>>
    IN  IF out.raises
        THEN IF ExceptException(out.cls)
             THEN [response |-> HTTPException(500, out.msg), log |-> log]
             ELSE [response |-> [Blank EXCEPT !.op = "embed", !.exception = out.cls],
                   log |-> log]
        ELSE [response |->
                [Blank EXCEPT !.op = "embed", !.status = 200,
                              !.embeddings = EmbeddingsList(enc, rows),
                              !.model = ModelLabel(req.model, name),
                              !.usage = [prompt_tokens |-> SumWords(req.texts),
                                         total_tokens |-> SumWords(req.texts)]],
              log |-> log]

\* The ways the body of embed_texts can end for a request
EmbedResults(enc, name, req) ==
    LET rejected == Validate(enc, req.texts)
    IN  IF rejected # Blank
        THEN {[response |-> rejected, log |-> <<>>]}
        ELSE {TryEncode(enc, name, req, out) : out \in EncodeOutcomes(enc)}

\* POST /embed, with an `except` clause that also drops the encoder
embed_texts_Unloading ==
    /\ phase = "pending"
    /\ request.op = "embed"
    /\ \E r \in EmbedResults(embedder, model_name, request) :
         /\ response' = r.response
         /\ encode_log' = r.log
         /\ embedder' = IF r.response.status = 500 THEN None ELSE embedder
    /\ phase' = "responded"
    /\ UNCHANGED <<model_name, pc, attempts, request>>

\* POST /embed
embed_texts ==
    /\ phase = "pending"
    /\ request.op = "embed"
    /\ \E r \in EmbedResults(embedder, model_name, request) :
         /\ response' = r.response
         /\ encode_log' = r.log
    /\ phase' = "responded"
    /\ UNCHANGED <<embedder, model_name, pc, attempts, request>>

\* The response is sent and the connection is free for the next request.
Respond ==
    /\ phase = "responded"
    /\ phase' = "idle"
    /\ request' = NoRequest
    /\ response' = Blank
    /\ encode_log' = <<>>
    /\ UNCHANGED <<embedder, model_name, pc, attempts>>

Next ==
    \/ Startup
    \/ Receive
    \/ health
    \/ root
    \/ embed_texts
    \/ Respond

Spec == Init /\ [][Next]_vars

\* ------------------------------------------------------------ properties
\* A step in which a handler answers the request in flight
Answers == phase = "pending" /\ phase' = "responded"

Answered == phase = "responded"

EmbedOK == Answered /\ response.op = "embed" /\ response.status = 200

\* C1: model resolution never fails: whatever the two neural tiers end
\* with, load_model returns without raising and leaves an encoder assigned.
C1_ResolutionNeverFails == pc # "init" => (pc = "ready" /\ embedder # None)

\* C2: readiness follows the encoder: with no encoder POST /embed answers
\* 503 "Model not loaded" whatever the body and GET /health answers
\* ready=false; with an encoder GET /health answers ready=true and
\* POST /embed never answers 503.
C2_ReadinessFollowsEncoder ==
    [][Answers =>
         /\ (request.op = "embed" /\ embedder = None) =>
               /\ response'.status = 503
               /\ response'.detail = "Model not loaded"
         /\ (request.op = "embed" /\ embedder # None) => response'.status # 503
         /\ request.op = "health" =>
               /\ response'.status = 200
               /\ response'.ready = (embedder # None)]_vars

C2_Witness ==
    /\ Answered
    /\ pc = "init"
    /\ request.op = "embed"
    /\ Len(request.texts) > 100
    /\ response.status = 503

\* C3: with an encoder resolved, an empty texts list is answered 400
\* "No texts provided" and more than 100 texts 400 "Too many texts
\* (max 100)", both without a call of encode; every batch of 1 to 100
\* texts reaches encode.
C3_Validation ==
    [][(Answers /\ request.op = "embed" /\ embedder # None) =>
         /\ Len(request.texts) = 0 =>
               /\ response'.status = 400
               /\ response'.detail = "No texts provided"
               /\ encode_log' = <<>>
         /\ Len(request.texts) > 100 =>
               /\ response'.status = 400
               /\ response'.detail = "Too many texts (max 100)"
               /\ encode_log' = <<>>
         /\ Len(request.texts) \in 1..100 =>
               /\ response'.status # 400
               /\ encode_log' # <<>>
               /\ encode_log'[1].args = request.texts]_vars

C3_Witness ==
    /\ EmbedOK
    /\ Len(request.texts) = 100
    /\ encode_log # <<>>

\* The encoding of one text by the active encoder, as the response lists it
EncodingOf(enc, text) == ToList(enc, Encode(enc, <<text>>)[1])

\* C4: a successful POST /embed carries as many embeddings as texts, and
\* the embedding at position i is the encoding of the text at position i.
C4_OnePerTextInOrder ==
    EmbedOK =>
        /\ Len(request.texts) \in 1..100
        /\ Len(response.embeddings) = Len(request.texts)
        /\ \A i \in 1..Len(request.texts) :
              response.embeddings[i] = EncodingOf(embedder, request.texts[i])

C4_Witness ==
    /\ EmbedOK
    /\ embedder = FallbackEmbedder
    /\ Len(request.texts) = 2
    /\ response.embeddings[1] # response.embeddings[2]

\* C5 as claimed: the model label is the requested model name for every
\* provided string value, and the resolved identifier only when the
\* request provides none.
C5_LabelForEveryString ==
    EmbedOK =>
        response.model = IF request.model # <<>> THEN request.model[1] ELSE model_name

\* C5 as amended: the model label is the requested model name whenever the
\* request provides a non-empty model string, and the resolved identifier
\* when it provides none or the empty string.
C5_LabelForNonEmptyString ==
    EmbedOK =>
        /\ (request.model # <<>> /\ request.model # <<"">>) =>
              response.model = request.model[1]
        /\ (request.model = <<>> \/ request.model = <<"">>) =>
              response.model = model_name

C5_Witness ==
    /\ EmbedOK
    /\ request.model = <<"custom-model">>
    /\ response.model = "custom-model"

\* C6: an exception raised by encode during POST /embed is answered as 500
\* whose detail is the exception's message; encode is called exactly once
\* per validated request and no exception leaves the handler.
C6_EncodeFailureIs500 ==
    (Answered /\ response.op = "embed") =>
        /\ response.exception = ""
        /\ response.status \in {200, 500} <=> encode_log # <<>>
        /\ encode_log # <<>> =>
              /\ Len(encode_log) = 1
              /\ encode_log[1].outcome.raises =>
                    /\ response.status = 500
                    /\ response.detail = encode_log[1].outcome.msg
              /\ ~encode_log[1].outcome.raises => response.status = 200

C6_Witness ==
    /\ Answered
    /\ encode_log # <<>>
    /\ encode_log[1].outcome.cls = "RuntimeError"
    /\ response.status = 500
    /\ response.detail = "CUDA out of memory"

\* C7: once load_model has assigned the encoder, no request (answered 200,
\* 400 or 500) changes the encoder or the model identifier: the service
\* never returns to not-ready and never swaps encoders.
C7_ReadyIsTerminal ==
    [][embedder # None => (embedder' = embedder /\ model_name' = model_name)]_vars

C7_Witness ==
    /\ Answered
    /\ response.status = 500
    /\ embedder # None
    /\ model_name = DefaultModelName

\* Words of a text counted by their first characters: a character that is
\* not whitespace and follows whitespace or the start of the text.
WordStarts(text) ==
    {i \in 1..Len(text) : ~IsSpace(text[i]) /\ (i = 1 \/ IsSpace(text[i - 1]))}

RECURSIVE TotalWords(_, _, _)
TotalWords(texts, lo, hi) ==
    IF lo > hi THEN 0
    ELSE IF lo = hi THEN Cardinality(WordStarts(texts[lo]))
    ELSE LET mid == (lo + hi) \div 2
         IN  TotalWords(texts, lo, mid) + TotalWords(texts, mid + 1, hi)

\* C8: on success usage.prompt_tokens and usage.total_tokens are equal and
\* are the sum over the texts of their whitespace-delimited words; an empty
\* or all-whitespace text adds 0.
C8_UsageCountsWords ==
    EmbedOK =>
        /\ response.usage.prompt_tokens = response.usage.total_tokens
        /\ response.usage.total_tokens = TotalWords(request.texts, 1, Len(request.texts))

C8_Witness ==
    /\ EmbedOK
    /\ \E i \in 1..Len(request.texts) :
          request.texts[i] # <<>> /\ Strip(request.texts[i]) = <<>>
    /\ response.usage.total_tokens > 0

TierOrder == <<"sentence-transformers", "transformers", "fallback">>

EncoderOfTier(tier) ==
    IF tier = "sentence-transformers" THEN SentenceTransformer
    ELSE IF tier = "transformers" THEN TransformersEmbedder
    ELSE FallbackEmbedder

\* C9: load_model tries sentence-transformers, transformers, fallback in
\* that order; it tries no tier after one succeeded, the encoder it assigns
\* is that of the tier that succeeded, and failed tiers assign nothing.
C9_FirstSuccessWins ==
    pc # "init" =>
        /\ Len(attempts) \in 1..3
        /\ \A i \in 1..Len(attempts) : attempts[i].tier = TierOrder[i]
        /\ \A i \in 1..(Len(attempts) - 1) : attempts[i].outcome # "ok"
        /\ IF attempts[Len(attempts)].outcome = "ok"
           THEN embedder = EncoderOfTier(attempts[Len(attempts)].tier)
           ELSE embedder = None

C9_Witness ==
    /\ pc = "ready"
    /\ embedder = TransformersEmbedder
    /\ Len(attempts) = 2
    /\ attempts[1].outcome = "ImportError"

\* The rows of the last call of FallbackEmbedder.encode
FallbackRows ==
    IF Answered /\ embedder = FallbackEmbedder /\ encode_log # <<>>
    THEN encode_log[1].rows
    ELSE <<>>

\* C10: FallbackEmbedder.encode never divides by zero: the vector is
\* divided by its norm exactly when the norm is greater than 0, and a text
\* whose lowercased, stripped form is empty yields the all-zero vector of
\* 768 components, undivided, its index 0 holding the length feature 0.
C10_NoDivisionByZero ==
    \A i \in 1..Len(FallbackRows) :
        LET r == FallbackRows[i]
        IN  /\ r.divided <=> r.norm > 0
            /\ ~r.nan
            /\ r.text_clean = <<>> =>
                  /\ ~r.divided
                  /\ DOMAIN r.vec = 0..767
                  /\ \A k \in 0..767 : r.vec[k] = 0
            /\ r.text_clean # <<>> => (r.divided /\ r.vec[0] > 0)

C10_Witness ==
    \E i \in 1..Len(FallbackRows) :
        /\ encode_log[1].args[i] # <<>>
        /\ FallbackRows[i].text_clean = <<>>
        /\ FallbackRows[i].norm = 0
        /\ response.status = 200

====
